---- MODULE Spec2Model ----
(***************************************************************************)
(* A model of the warmthly-admin API: the in-memory rate limiter           *)
(* (rate-limit.js, carried in src/api/login.js), the login handler, the    *)
(* list-emails handler, the inbound webhook handler and the send-email     *)
(* handler, with the Redis list "emails" and the cached Redis client.      *)
(*                                                                         *)
(* Strings the code inspects character by character are sequences of       *)
(* one-character strings; JavaScript's undefined/null is the empty         *)
(* sequence where only truthiness is tested.                               *)
(***************************************************************************)
EXTENDS Integers, Sequences, FiniteSets, TLC

VARIABLES
    now,             \* Date.now(), in milliseconds
    rateLimitStore,  \* the Map of login.js:58, a function key -> [count, resetTime]
    routeOptions,    \* url -> the options object its withRateLimit wrapper closes over
    windowLog,       \* observer: per key, when its window was opened and the calls since
    lastCheck,       \* observer: the most recent checkRateLimit call and what it returned
    env,             \* process.env
    emails,          \* the Redis list "emails", head first
    clients,         \* the clients createClient has made, by number: their connection state
    redisClient,     \* module -> the number of the client its redisClient holds, 0 for null
    socket,          \* the connect loop of one client's socket, as its reconnectStrategy drives it
    reqs,            \* the requests in flight, oldest first: where each handler is suspended
    last             \* observer: the request answered most recently, and its response

rateVars == <<rateLimitStore, routeOptions, windowLog, lastCheck>>

apiVars == <<env, emails, clients, redisClient, socket, reqs, last>>

vars == <<now, rateLimitStore, routeOptions, windowLog, lastCheck,
          env, emails, clients, redisClient, socket, reqs, last>>

(***************************************************************************)
(* Bounds of the model.                                                    *)
(***************************************************************************)
MaxN == 2          \* largest options.max drawn in SpecRate
MaxWindow == 2     \* largest options.windowMs drawn in SpecRate
MaxRateNow == 4    \* the clock of SpecRate stops here

(***************************************************************************)
(* Small helpers.                                                          *)
(***************************************************************************)
Min(a, b) == IF a < b THEN a ELSE b

\* Math.ceil(a / b) for a >= 0, b > 0
CeilDiv(a, b) == (a + b - 1) \div b

IsSpace(c) == c \in {" ", "\t", "\n"}

\* String.prototype.trim
RECURSIVE TrimLeft(_)
TrimLeft(s) == IF s # <<>> /\ IsSpace(Head(s)) THEN TrimLeft(Tail(s)) ELSE s

RECURSIVE TrimRight(_)
TrimRight(s) ==
    IF s # <<>> /\ IsSpace(s[Len(s)]) THEN TrimRight(SubSeq(s, 1, Len(s) - 1)) ELSE s

Trim(s) == TrimRight(TrimLeft(s))

\* s.split(',')[0]: the text before the first comma
RECURSIVE SplitFirst(_)
SplitFirst(s) ==
    IF s = <<>> \/ Head(s) = "," THEN <<>> ELSE <<Head(s)>> \o SplitFirst(Tail(s))

(***************************************************************************)
(* The rate limiter (rate-limit.js).                                       *)
(***************************************************************************)
Unknown == <<"u", "n", "k", "n", "o", "w", "n">>

\* login.js:81-85; an absent header and an empty one are both falsy
Identifier(req) ==
    LET fwd == IF req.xForwardedFor = <<>> THEN <<>>
               ELSE Trim(SplitFirst(req.xForwardedFor))
    IN  IF fwd # <<>> THEN fwd
        ELSE IF req.xRealIp # <<>> THEN req.xRealIp
        ELSE IF req.remoteAddress # <<>> THEN req.remoteAddress
        ELSE Unknown

\* login.js:87  `${identifier}:${req.url}`
RateKey(req) == Identifier(req) \o <<":">> \o req.url

\* a cleanup that also drops the records whose window ends at this very instant
cleanupAtBoundary(store, t) ==
    [k \in {j \in DOMAIN store : ~(store[j].resetTime <= t)} |-> store[k]]

\* a cleanup that empties the Map
cleanupEverything(store, t) ==
    [k \in {j \in DOMAIN store : FALSE} |-> store[k]]

\* login.js:61-68
cleanup(store, t) ==
    [k \in {j \in DOMAIN store : ~(store[j].resetTime < t)} |-> store[k]]

\* Map.prototype.set
MapSet(store, key, value) ==
    [k \in DOMAIN store \cup {key} |-> IF k = key THEN value ELSE store[k]]

\* The four outcomes of checkRateLimit: the Map after the call and the result
\* object.  retryAfter is 0 where the code leaves it undefined.

\* login.js:93-99
resetRecord(store, key, options, t) ==
    [store |-> MapSet(store, key, [count |-> 1, resetTime |-> t + options.windowMs]),
     result |-> [allowed |-> TRUE, remaining |-> options.max - 1,
                 resetTime |-> t + options.windowMs, retryAfter |-> 0]]

\* a rejection that still counts the call
rejectCounting(store, key, options, t) ==
    [store |-> MapSet(store, key, [count |-> store[key].count + 1,
                                   resetTime |-> store[key].resetTime]),
     result |-> [allowed |-> FALSE, remaining |-> 0,
                 resetTime |-> store[key].resetTime,
                 retryAfter |-> CeilDiv(store[key].resetTime - t, 1000)]]

\* login.js:102-109
reject(store, key, options, t) ==
    [store |-> store,
     result |-> [allowed |-> FALSE, remaining |-> 0,
                 resetTime |-> store[key].resetTime,
                 retryAfter |-> CeilDiv(store[key].resetTime - t, 1000)]]

\* login.js:111-114
increment(store, key, options, t) ==
    [store |-> MapSet(store, key, [count |-> store[key].count + 1,
                                   resetTime |-> store[key].resetTime]),
     result |-> [allowed |-> TRUE, remaining |-> options.max - (store[key].count + 1),
                 resetTime |-> store[key].resetTime, retryAfter |-> 0]]

\* login.js:116-121
createRecord(store, key, options, t) ==
    [store |-> MapSet(store, key, [count |-> 1, resetTime |-> t + options.windowMs]),
     result |-> [allowed |-> TRUE, remaining |-> options.max - 1,
                 resetTime |-> t + options.windowMs, retryAfter |-> 0]]

\* a check that never looks at the limit
checkRateLimitUnbounded(store, req, options, t) ==
    LET swept == cleanup(store, t)
        key == RateKey(req)
    IN  IF key \in DOMAIN swept
        THEN IF swept[key].resetTime < t THEN resetRecord(swept, key, options, t)
             ELSE increment(swept, key, options, t)
        ELSE createRecord(swept, key, options, t)

\* login.js:71-123
checkRateLimit(store, req, options, t) ==
    LET swept == cleanup(store, t)
        key == RateKey(req)
    IN  IF key \in DOMAIN swept
        THEN IF swept[key].resetTime < t THEN resetRecord(swept, key, options, t)
             ELSE IF swept[key].count >= options.max THEN reject(swept, key, options, t)
             ELSE increment(swept, key, options, t)
        ELSE createRecord(swept, key, options, t)

(***************************************************************************)
(* The process: its environment and its module-level state.                *)
(***************************************************************************)
Modules == {"get-emails", "inbound-email"}

MaxInFlight == 2   \* requests whose handlers are suspended at the same time

Slots == DOMAIN reqs

\* a module's redisClient and every suspended call can each hold one client
ClientIds == 1..(MaxInFlight + Cardinality(Modules))

NoLast == [route |-> "none"]

\* no variable of the environment is set
NoEnv ==
    [ADMIN_PASSWORD |-> <<>>, JWT_SECRET |-> "", RESEND_WEBHOOK_SECRET |-> "",
     RESEND_API_KEY |-> "", REDIS_URL |-> ""]

\* no socket is followed
NoSocket == [phase |-> "none"]

\* the module-level state when the process starts
\* (get-emails.js:8, inbound-email.js:8, login.js:58)
InitProcess ==
    /\ socket = NoSocket
    /\ emails = <<>>
    /\ clients = [c \in ClientIds |-> "free"]
    /\ redisClient = [m \in Modules |-> 0]
    /\ reqs = <<>>
    /\ last = NoLast

(***************************************************************************)
(* JavaScript values of a request body field.  A value is [kind, val]: a   *)
(* string is the sequence of its UTF-16 code units, an array the sequence  *)
(* of its (integer) elements, a number the one-element sequence of it, and *)
(* undefined has no val.                                                   *)
(***************************************************************************)
Str(units) == [kind |-> "string", val |-> units]

Arr(elems) == [kind |-> "array", val |-> elems]

Num(n) == [kind |-> "number", val |-> <<n>>]

Undefined == [kind |-> "undefined", val |-> <<>>]

\* ToBoolean: '' , 0 and undefined are falsy, every array is truthy
Truthy(v) ==
    CASE v.kind = "string" -> v.val # <<>>
      [] v.kind = "number" -> v.val[1] # 0
      [] v.kind = "array" -> TRUE
      [] OTHER -> FALSE

\* v.length; numbers have none (undefined, here -1)
JsLength(v) == IF v.kind \in {"string", "array"} THEN Len(v.val) ELSE 0 - 1

IsHighSurrogate(c) == c >= 55296 /\ c <= 56319

IsLowSurrogate(c) == c >= 56320 /\ c <= 57343

\* the UTF-8 bytes of one code point
Utf8Point(c) ==
    IF c < 128 THEN <<c>>
    ELSE IF c < 2048 THEN <<192 + (c \div 64), 128 + (c % 64)>>
    ELSE IF c < 65536 THEN <<224 + (c \div 4096), 128 + ((c \div 64) % 64), 128 + (c % 64)>>
    ELSE <<240 + (c \div 262144), 128 + ((c \div 4096) % 64),
           128 + ((c \div 64) % 64), 128 + (c % 64)>>

\* Buffer.from(string, 'utf8'): a surrogate pair is one code point, a lone
\* surrogate is written as U+FFFD
RECURSIVE Utf8(_)
Utf8(units) ==
    IF units = <<>> THEN <<>>
    ELSE LET c == Head(units) IN
         IF IsHighSurrogate(c) /\ Len(units) >= 2 /\ IsLowSurrogate(units[2])
         THEN Utf8Point(65536 + (c - 55296) * 1024 + (units[2] - 56320))
              \o Utf8(Tail(Tail(units)))
         ELSE IF IsHighSurrogate(c) \/ IsLowSurrogate(c)
         THEN Utf8Point(65533) \o Utf8(Tail(units))
         ELSE Utf8Point(c) \o Utf8(Tail(units))

\* Buffer.from(value, 'utf8'): an array gives its elements modulo 256
ToBuffer(v) ==
    IF v.kind = "string" THEN Utf8(v.val)
    ELSE [i \in 1..Len(v.val) |-> v.val[i] % 256]

\* crypto.timingSafeEqual: throws when the byte lengths differ
timingSafeEqual(x, y) == [threw |-> Len(x) # Len(y), value |-> x = y]

(***************************************************************************)
(* The credential verifier (login.js).                                     *)
(***************************************************************************)
\* a comparison that trusts the length check and looks at the first byte only
constantTimeCompareFirstByte(a, b) ==
    IF ~Truthy(a) \/ ~Truthy(b) THEN FALSE
    ELSE IF JsLength(a) # JsLength(b) THEN FALSE
    ELSE ToBuffer(a)[1] = ToBuffer(b)[1]

\* login.js:6-16
constantTimeCompare(a, b) ==
    IF ~Truthy(a) \/ ~Truthy(b) THEN FALSE
    ELSE IF JsLength(a) # JsLength(b) THEN FALSE
    ELSE LET r == timingSafeEqual(ToBuffer(a), ToBuffer(b)) IN
         IF r.threw THEN FALSE ELSE r.value

EightHours == 28800   \* expiresIn: '8h', in seconds

NoToken == [kind |-> "none"]

\* jwt.sign({ user: 'admin' }, secret, { expiresIn: '8h' }) at time t
jwtSign(secret, t) ==
    [kind |-> "jwt", key |-> secret, user |-> "admin",
     iat |-> t \div 1000, exp |-> (t \div 1000) + EightHours]

\* jwt.verify(token, secret) at time t: "ok", or the error it throws
jwtVerify(token, secret, t) ==
    IF token.kind # "jwt" THEN "JsonWebTokenError"
    ELSE IF token.key # secret THEN "JsonWebTokenError"
    ELSE IF (t \div 1000) >= token.exp THEN "TokenExpiredError"
    ELSE "ok"

\* What a handler hands back: the response and the stages the request went
\* through, in order.
Response(status, error) ==
    [status |-> status, error |-> error, token |-> NoToken, list |-> <<>>]

\* loginHandler signing with whatever the secret is, set or not
loginHandlerSigningAnyway(req, e, t) ==
    IF req.method # "POST"
    THEN [res |-> Response(405, "Method Not Allowed"), trace |-> <<"handler">>]
    ELSE IF ~req.hasBody
    THEN [res |-> Response(500, "uncaught TypeError"), trace |-> <<"handler">>]
    ELSE IF e.ADMIN_PASSWORD = <<>>
    THEN [res |-> Response(500, "Admin password not configured."),
          trace |-> <<"handler">>]
    ELSE IF constantTimeCompare(IF Truthy(req.password) THEN req.password ELSE Str(<<>>),
                                Str(e.ADMIN_PASSWORD))
    THEN [res |-> [Response(200, "") EXCEPT !.token = jwtSign(e.JWT_SECRET, t)],
          trace |-> <<"handler", "verify:ok">>]
    ELSE [res |-> Response(401, "Incorrect password"),
          trace |-> <<"handler", "verify:fail">>]

\* login.js:18-50.  A request without a body makes the destructuring of
\* line 23 throw; nothing catches it and the platform answers 500.
loginHandler(req, e, t) ==
    IF req.method # "POST"
    THEN [res |-> Response(405, "Method Not Allowed"), trace |-> <<"handler">>]
    ELSE IF ~req.hasBody
    THEN [res |-> Response(500, "uncaught TypeError"), trace |-> <<"handler">>]
    ELSE IF e.ADMIN_PASSWORD = <<>>
    THEN [res |-> Response(500, "Admin password not configured."),
          trace |-> <<"handler">>]
    ELSE IF constantTimeCompare(IF Truthy(req.password) THEN req.password ELSE Str(<<>>),
                                Str(e.ADMIN_PASSWORD))
    THEN IF e.JWT_SECRET = ""
         THEN [res |-> Response(500, "Authentication system not configured."),
               trace |-> <<"handler", "verify:ok">>]
         ELSE [res |-> [Response(200, "") EXCEPT !.token = jwtSign(e.JWT_SECRET, t)],
               trace |-> <<"handler", "verify:ok">>]
    ELSE [res |-> Response(401, "Incorrect password"),
          trace |-> <<"handler", "verify:fail">>]

(***************************************************************************)
(* The Redis client (node-redis) as the handlers use it.  A client is      *)
(* "connecting" from the call of connect() (isOpen is already true then),  *)
(* "ready" once connect() has resolved, and "closed" once connect() has    *)
(* rejected or the connection was lost for good.  A closed client that no  *)
(* variable refers to any more is garbage: its number is "free" again.     *)
(***************************************************************************)
MaxEmails == 2     \* entries the list "emails" grows to

\* a client that reports itself open only once connect() has succeeded
IsOpenOnceReady(c) == clients[c] = "ready"

\* isOpen: true from the call of connect() until the client is closed
IsOpen(c) == clients[c] \in {"connecting", "ready"}

FreeClients == {c \in ClientIds : clients[c] = "free"}

\* the number createClient gives the next client
NewClient == CHOOSE c \in FreeClients : \A o \in FreeClients : c <= o

Referenced(rc, rq) ==
    { rc[m] : m \in DOMAIN rc }
    \cup { rq[s].made : s \in DOMAIN rq }
    \cup { rq[s].client : s \in DOMAIN rq }

Sweep(cl, rc, rq) ==
    [c \in DOMAIN cl |->
        IF cl[c] = "closed" /\ c \notin Referenced(rc, rq) THEN "free" ELSE cl[c]]

\* clients becomes cl, less the garbage the step leaves behind
Swept(cl) == clients' = Sweep(cl, redisClient', reqs')

\* an accessor that makes a client on every call, whatever it holds
getRedisClientAlwaysNew(m, e) ==
    IF e.REDIS_URL = ""
    THEN [kind |-> "throw", client |-> 0]
    ELSE [kind |-> "create", client |-> NewClient]

\* get-emails.js:10-59 and inbound-email.js:10-59, up to the await of
\* connect(): the cached client, a throw, or a new client being connected
getRedisClient(m, e) ==
    IF redisClient[m] # 0 /\ IsOpen(redisClient[m])
    THEN [kind |-> "reuse", client |-> redisClient[m]]
    ELSE IF e.REDIS_URL = ""
    THEN [kind |-> "throw", client |-> 0]
    ELSE [kind |-> "create", client |-> NewClient]

(***************************************************************************)
(* The webhook authenticator: resend.webhooks.verify, as the signed        *)
(* envelope works.  A signature is the tuple of what it was computed over. *)
(***************************************************************************)
WebhookTolerance == 5 * 60   \* seconds a timestamp may be off

NoSignature == [key |-> "", id |-> "", ts |-> 0, body |-> [type |-> "none"]]

Sign(secret, id, ts, body) == [key |-> secret, id |-> id, ts |-> ts, body |-> body]

\* a verification that does not look at the age of the envelope
webhooksVerifyAnyAge(rawBody, id, ts, signature, secret, t) ==
    /\ id # ""
    /\ signature # NoSignature
    /\ signature = Sign(secret, id, ts, rawBody)

\* TRUE when verify returns the parsed body, FALSE when it throws
webhooksVerify(rawBody, id, ts, signature, secret, t) ==
    /\ id # ""
    /\ signature # NoSignature
    /\ signature = Sign(secret, id, ts, rawBody)
    /\ (t \div 1000) - ts <= WebhookTolerance
    /\ ts - (t \div 1000) <= WebhookTolerance

\* JSON.stringify of an object whose members are strings, and JSON.parse
Stringify(object) == [kind |-> "json", value |-> object]

Parses(text) == text.kind = "json"

Parse(text) == text.value

\* inbound-email.js:102-113: the bytes the signature is checked against.
\* When the stream fails the parsed body is serialised again, which gives
\* the bytes sent only if they were in JSON.stringify's own layout.
RawBody(req) ==
    IF req.read = "ok" THEN req.body ELSE [req.body EXCEPT !.compact = TRUE]

\* a secret that is never missing
webhookSecretOrDefault(e) ==
    IF e.RESEND_WEBHOOK_SECRET = "" THEN "w" ELSE e.RESEND_WEBHOOK_SECRET

\* inbound-email.js:127: const webhookSecret = process.env.RESEND_WEBHOOK_SECRET
webhookSecret(e) == e.RESEND_WEBHOOK_SECRET

\* every kind of event taken for a received email
isAnyEvent(event) == TRUE

\* inbound-email.js:164: event.type === 'email.received'
isEmailReceived(event) == event.type = "email.received"

\* inbound-email.js:187-193
emailToStore(emailData, t) ==
    [id |-> IF emailData.email_id # "" THEN emailData.email_id
            ELSE "email-" \o ToString(t),
     from |-> IF emailData.from # "" THEN emailData.from ELSE "Unknown",
     to |-> IF emailData.to # "" THEN emailData.to ELSE "Unknown",
     subject |-> IF emailData.subject # "" THEN emailData.subject ELSE "(No Subject)",
     receivedAt |-> IF emailData.created_at # "" THEN emailData.created_at
                    ELSE "iso-" \o ToString(t)]

(***************************************************************************)
(* Observers of the rate limiter.  windowLog follows the calls of each key *)
(* from the outside: a window is opened by the first call of a key, and by *)
(* the first call made more than windowMs after the window was opened.     *)
(* made counts the calls of the window and saturates at max + 1.           *)
(***************************************************************************)
NeverOpened == 0 - 1

NoRecord == [count |-> 0, resetTime |-> 0]

LogCall(log, options, t) ==
    IF log.openedAt = NeverOpened \/ t > log.openedAt + options.windowMs
    THEN [openedAt |-> t, made |-> 1, windowMs |-> options.windowMs]
    ELSE [openedAt |-> log.openedAt, made |-> Min(log.made + 1, options.max + 1),
          windowMs |-> log.windowMs]

\* a window that is over says nothing about the calls to come
Forget(log, t) ==
    IF log.openedAt # NeverOpened /\ t > log.openedAt + log.windowMs
    THEN [openedAt |-> NeverOpened, made |-> 0, windowMs |-> 0]
    ELSE log

NoCheck ==
    [key |-> <<>>, at |-> -1, max |-> 0, windowMs |-> 0,
     openedBefore |-> NeverOpened, nth |-> 0,
     hadRecord |-> FALSE, before |-> NoRecord, after |-> NoRecord,
     result |-> [allowed |-> FALSE, remaining |-> 0, resetTime |-> 0, retryAfter |-> 0]]

\* the observers after a checkRateLimit call for req at time t
Observe(store, log, req, options, t) ==
    LET key == RateKey(req)
        out == checkRateLimit(store, req, options, t)
        seen == LogCall(log[key], options, t)
    IN  [log |-> [log EXCEPT ![key] = seen],
         check |-> [key |-> key, at |-> t, max |-> options.max,
                    windowMs |-> options.windowMs,
                    openedBefore |-> log[key].openedAt, nth |-> seen.made,
                    hadRecord |-> key \in DOMAIN store,
                    before |-> IF key \in DOMAIN store THEN store[key] ELSE NoRecord,
                    after |-> IF key \in DOMAIN out.store THEN out.store[key] ELSE NoRecord,
                    result |-> out.result]]

(***************************************************************************)
(* SpecRate: checkRateLimit on its own, for every options.max in 1..MaxN   *)
(* and every options.windowMs in 1..MaxWindow, two callers and two routes. *)
(***************************************************************************)
RateUrls == {<<"/", "l">>, <<"/", "e">>}

\* one request per way the identifier is derived: caller "a" by the forwarded
\* header, by x-real-ip and by the socket address, and the sentinel; three keys
RateReqs ==
    { [xForwardedFor |-> <<" ", "a", ",", "b">>, xRealIp |-> <<"b">>,
       remoteAddress |-> <<>>, url |-> <<"/", "l">>],
      [xForwardedFor |-> <<",", "b">>, xRealIp |-> <<"a">>,
       remoteAddress |-> <<"b">>, url |-> <<"/", "l">>],
      [xForwardedFor |-> <<>>, xRealIp |-> <<>>,
       remoteAddress |-> <<"a">>, url |-> <<"/", "e">>],
      [xForwardedFor |-> <<>>, xRealIp |-> <<>>,
       remoteAddress |-> <<>>, url |-> <<"/", "l">>] }

RateKeys == { RateKey(r) : r \in RateReqs }

RateOptions == [windowMs : 1..MaxWindow, max : 1..MaxN]

\* route /l is checked under every options object, route /e under the widest
WidestOptions == [windowMs |-> MaxWindow, max |-> MaxN]

InitRate ==
    /\ now = 0
    /\ rateLimitStore = << >>
    /\ \E o \in RateOptions :
          routeOptions = [u \in RateUrls |-> IF u = <<"/", "l">> THEN o ELSE WidestOptions]
    /\ windowLog = [k \in RateKeys |-> [openedAt |-> NeverOpened, made |-> 0, windowMs |-> 0]]
    /\ lastCheck = NoCheck
    /\ env = NoEnv
    /\ InitProcess

RateTick ==
    /\ now < MaxRateNow
    /\ now' = now + 1
    /\ windowLog' = [k \in DOMAIN windowLog |-> Forget(windowLog[k], now + 1)]
    /\ lastCheck' = NoCheck
    /\ UNCHANGED <<rateLimitStore, routeOptions, apiVars>>

RateCheck(req) ==
    LET options == routeOptions[req.url]
        out == checkRateLimit(rateLimitStore, req, options, now)
        obs == Observe(rateLimitStore, windowLog, req, options, now)
    IN  /\ rateLimitStore' = out.store
        /\ windowLog' = obs.log
        /\ lastCheck' = obs.check
        /\ UNCHANGED <<now, routeOptions, apiVars>>

NextRate ==
    \/ RateTick
    \/ \E req \in RateReqs : RateCheck(req)

SpecRate == InitRate /\ [][NextRate]_vars

(***************************************************************************)
(* The API.  A request is answered in one step unless its handler awaits   *)
(* the store or the provider: then it waits in a slot, and other requests  *)
(* run meanwhile.                                                          *)
(* last holds the request answered by the step that led to the state, with *)
(* its response, the stages it went through and the store as the answering *)
(* step found it.                                                          *)
(***************************************************************************)
LoginUrl == <<"/", "api", "/", "login">>

GetEmailsUrl == <<"/", "api", "/", "get-emails">>

SendEmailUrl == <<"/", "api", "/", "send-email">>

LoginWindowMs == 900000

LoginMax == 5

EmailWindowMs == 3600000

EmailMax == 10

ApiWindowMs == 900000

ApiMax == 100

\* login.js:147-163
loginRateLimitOptions == [windowMs |-> LoginWindowMs, max |-> LoginMax]

emailRateLimitOptions == [windowMs |-> EmailWindowMs, max |-> EmailMax]

apiRateLimitOptions == [windowMs |-> ApiWindowMs, max |-> ApiMax]

\* login.js:53, get-emails.js:194, part_000:101
WrapperOptions ==
    [u \in {LoginUrl, GetEmailsUrl, SendEmailUrl} |->
        IF u = LoginUrl THEN loginRateLimitOptions
        ELSE IF u = SendEmailUrl THEN emailRateLimitOptions
        ELSE apiRateLimitOptions]

NoHeaders == [set |-> FALSE, limit |-> 0, remaining |-> 0, reset |-> 0, retryAfter |-> 0 - 1]

\* the three headers alone, with no Retry-After on a rejection either
HeadersWithoutRetryAfter(options, result) ==
    [set |-> TRUE,
     limit |-> IF options.max = 0 THEN 100 ELSE options.max,
     remaining |-> result.remaining,
     reset |-> result.resetTime,
     retryAfter |-> 0 - 1]

\* login.js:131-136; no Retry-After (-1) on an admitted request
RateLimitHeaders(options, result) ==
    [set |-> TRUE,
     limit |-> IF options.max = 0 THEN 100 ELSE options.max,
     remaining |-> result.remaining,
     reset |-> result.resetTime,
     retryAfter |-> IF result.allowed THEN 0 - 1 ELSE result.retryAfter]

\* login.js:126-144, up to the call of the handler
withRateLimit(req) ==
    LET options == routeOptions[req.url]
        out == checkRateLimit(rateLimitStore, req, options, now)
    IN  [store |-> out.store,
         allowed |-> out.result.allowed,
         headers |-> RateLimitHeaders(options, out.result)]

\* login.js:137-139
TooManyRequests == Response(429, "Too many requests")

Store == [emails |-> emails, clients |-> clients, redisClient |-> redisClient]

Answer(req, res, headers, trace) ==
    [route |-> req.route, req |-> req, res |-> res, headers |-> headers,
     trace |-> trace, found |-> Store]

\* another handler can be suspended
Room == Len(reqs) < MaxInFlight

\* the slot a new request takes
NextSlot == Len(reqs) + 1

\* the call of slot s is suspended as held
Put(s, held) ==
    IF s \in DOMAIN reqs THEN [reqs EXCEPT ![s] = held] ELSE Append(reqs, held)

\* the call of slot s is over
Remove(s) ==
    [i \in 1..(Len(reqs) - (IF s \in DOMAIN reqs THEN 1 ELSE 0)) |->
        IF i < s THEN reqs[i] ELSE reqs[i + 1]]

Waiting(pc, req, headers, trace) ==
    [pc |-> pc, route |-> req.route, req |-> req, headers |-> headers, trace |-> trace,
     made |-> 0, client |-> 0, item |-> Stringify([id |-> ""])]

\* the call held in slot s returns: the request is answered
Return(s, held, res, trace) ==
    /\ last' = Answer(held.req, res, held.headers, trace)
    /\ reqs' = Remove(s)

\* get-emails.js:29-59, inbound-email.js:29-59: createClient, the module's
\* redisClient set to the new client, connect() called and awaited
CreateClient(s, m, held) ==
    /\ FreeClients # {}
    /\ redisClient' = [redisClient EXCEPT ![m] = NewClient]
    /\ reqs' = Put(s, [held EXCEPT !.pc = "connect", !.made = NewClient])
    /\ last' = NoLast
    /\ Swept([clients EXCEPT ![NewClient] = "connecting"])

(***************************************************************************)
(* POST /api/login                                                         *)
(***************************************************************************)
\* loginHandler exported as it is, with no wrapper
LoginUngoverned(req) ==
    LET out == loginHandler(req, env, now)
    IN  /\ last' = Answer(req, out.res, NoHeaders, out.trace)
        /\ UNCHANGED <<now, rateVars, env, socket, emails, clients, redisClient, reqs>>

\* login.js:53: withRateLimit(loginHandler, loginRateLimitOptions)
Login(req) ==
    LET gate == withRateLimit(req)
        out == loginHandler(req, env, now)
    IN  /\ rateLimitStore' = gate.store
        /\ last' = IF gate.allowed
                   THEN Answer(req, out.res, gate.headers, <<"rate:admit">> \o out.trace)
                   ELSE Answer(req, TooManyRequests, gate.headers, <<"rate:reject">>)
        /\ UNCHANGED <<now, routeOptions, windowLog, lastCheck,
                       env, socket, emails, clients, redisClient, reqs>>

(***************************************************************************)
(* POST /api/inbound-email                                                 *)
(***************************************************************************)
\* inbound-email.js:187-207: the record is built and lPush is called on what
\* getRedisClient returned; on null the call throws at once
InboundPush(s, held, client) ==
    IF client = 0
    THEN Return(s, held, Response(500, "Error processing webhook."), held.trace)
    ELSE /\ reqs' = Put(s, [held EXCEPT !.pc = "lPush", !.made = 0, !.client = client,
                                     !.trace = held.trace \o <<"write">>,
                                     !.item = Stringify(emailToStore(
                                                  RawBody(held.req).data, now))])
         /\ last' = NoLast

\* inbound-email.js:85-184: the handler is exported as it is, with no wrapper.
\* From the request to the first await of the store; the await of the body
\* (line 102) touches nothing another request sees.
InboundArrive(req) ==
    LET s == NextSlot
        held == Waiting("handler", req, NoHeaders, <<"handler">>)
        event == RawBody(req)
        verified == [held EXCEPT !.trace = held.trace \o <<"verify:ok">>]
        Reply(res, trace) ==
            /\ Return(s, held, res, trace)
            /\ UNCHANGED redisClient
            /\ Swept(clients)
    IN  /\ Room
        /\ IF req.method # "POST"
           THEN Reply(Response(405, "Method Not Allowed"), held.trace)
           ELSE IF req.read = "fail"
           THEN Reply(Response(500, "Error processing webhook."), held.trace)
           ELSE IF webhookSecret(env) = ""
           THEN Reply(Response(500, "Webhook verification not configured"), held.trace)
           ELSE IF ~webhooksVerify(event, req.svixId, req.svixTimestamp,
                                   req.svixSignature, webhookSecret(env), now)
           THEN Reply(Response(401, "Webhook verification failed."),
                      held.trace \o <<"verify:fail">>)
           ELSE IF ~isEmailReceived(event)
           THEN Reply(Response(200, "Webhook processed successfully."), verified.trace)
           ELSE IF ~event.data.present
           THEN Reply(Response(400, "Email data is missing"), verified.trace)
           ELSE LET got == getRedisClient("inbound-email", env) IN
                IF got.kind = "throw"
                THEN Reply(Response(500, "Error processing webhook."), verified.trace)
                ELSE IF got.kind = "reuse"
                THEN /\ InboundPush(s, verified, got.client)
                     /\ UNCHANGED redisClient
                     /\ Swept(clients)
                ELSE CreateClient(s, "inbound-email", verified)
        /\ UNCHANGED <<now, rateVars, env, socket, emails>>

\* a write that skips an event whose id the list already holds
InboundPushedOnce(s, outcome) ==
    /\ reqs[s].pc = "lPush"
    /\ clients[reqs[s].client] # "connecting"
    /\ IF clients[reqs[s].client] = "ready" /\ outcome = "ok"
       THEN /\ Len(emails) < MaxEmails
            /\ emails' = IF \E i \in DOMAIN emails : Parse(emails[i]).id = Parse(reqs[s].item).id
                         THEN emails ELSE <<reqs[s].item>> \o emails
            /\ Return(s, reqs[s], Response(200, "Webhook processed successfully."),
                      reqs[s].trace)
       ELSE /\ UNCHANGED emails
            /\ Return(s, reqs[s], Response(500, "Error processing webhook."),
                      reqs[s].trace)
    /\ UNCHANGED <<now, rateVars, env, socket, redisClient>>
    /\ Swept(clients)

\* inbound-email.js:207-229: lPush settles.  A command given to a client that
\* is still connecting waits for it; a closed client rejects it.
InboundPushed(s, outcome) ==
    /\ reqs[s].pc = "lPush"
    /\ clients[reqs[s].client] # "connecting"
    /\ IF clients[reqs[s].client] = "ready" /\ outcome = "ok"
       THEN /\ Len(emails) < MaxEmails
            /\ emails' = <<reqs[s].item>> \o emails
            /\ Return(s, reqs[s], Response(200, "Webhook processed successfully."),
                      reqs[s].trace)
       ELSE /\ UNCHANGED emails
            /\ Return(s, reqs[s], Response(500, "Error processing webhook."),
                      reqs[s].trace)
    /\ UNCHANGED <<now, rateVars, env, socket, redisClient>>
    /\ Swept(clients)

(***************************************************************************)
(* GET /api/get-emails                                                     *)
(***************************************************************************)
ListLimit == 100   \* lRange('emails', 0, 99)

Reverse(q) == [i \in 1..Len(q) |-> q[Len(q) + 1 - i]]

\* get-emails.js:140-149: parse each string, drop the ones that do not parse
ParseAll(texts) ==
    LET parsed == SelectSeq(texts, Parses)
    IN  [i \in 1..Len(parsed) |-> Parse(parsed[i])]

\* get-emails.js:140-154
reversedEmails(texts) == Reverse(ParseAll(texts))

\* get-emails.js:119: lRange is called on what getRedisClient returned; on
\* null the call throws at once, into the catch of line 159
GetEmailsRange(s, held, client) ==
    IF client = 0
    THEN Return(s, held, Response(500, "Failed to fetch emails."), held.trace)
    ELSE /\ reqs' = Put(s, [held EXCEPT !.pc = "lRange", !.made = 0, !.client = client,
                                     !.trace = held.trace \o <<"read">>])
         /\ last' = NoLast

\* get-emails.js:75-113, behind withRateLimit (get-emails.js:194): from the
\* request to the first await of the store
GetEmails(req) ==
    LET gate == withRateLimit(req)
        s == NextSlot
        held == Waiting("handler", req, gate.headers, <<"rate:admit", "handler">>)
        verified == [held EXCEPT !.trace = held.trace \o <<"verify:ok">>]
        Reply(res, trace) ==
            /\ Return(s, held, res, trace)
            /\ UNCHANGED redisClient
            /\ Swept(clients)
    IN  /\ Room
        /\ rateLimitStore' = gate.store
        /\ IF ~gate.allowed
           THEN Reply(TooManyRequests, <<"rate:reject">>)
           ELSE IF req.method # "GET"
           THEN Reply(Response(405, "Method Not Allowed"), held.trace)
           ELSE IF ~req.authorization.present \/ ~req.authorization.bearer
           THEN Reply(Response(401, "Authentication required."),
                      held.trace \o <<"verify:fail">>)
           ELSE IF env.JWT_SECRET = ""
           THEN Reply(Response(500, "Authentication system not configured."), held.trace)
           ELSE IF jwtVerify(req.authorization.token, env.JWT_SECRET, now) # "ok"
           THEN Reply(Response(401, "Invalid token."), held.trace \o <<"verify:fail">>)
           ELSE LET got == getRedisClient("get-emails", env) IN
                IF got.kind = "throw"
                THEN Reply(Response(500, "Database connection error."), verified.trace)
                ELSE IF got.kind = "reuse"
                THEN /\ GetEmailsRange(s, verified, got.client)
                     /\ UNCHANGED redisClient
                     /\ Swept(clients)
                ELSE CreateClient(s, "get-emails", verified)
        /\ UNCHANGED <<now, routeOptions, windowLog, lastCheck, env, socket, emails>>

\* an error check that takes every error of the read for a missing list
anyErrorIsMissingList(message) == message # "ok"

\* get-emails.js:130: the messages taken for a list that does not exist yet
listDoesNotExist(message) == message \in {"WRONGTYPE", "no such key"}

\* the messages lRange settles with; "ok" is no error
ReadOutcomes == {"ok", "WRONGTYPE", "no such key", "error"}

\* get-emails.js:119-157: lRange settles, with the list or with an error
\* whose message is outcome; on a closed client it rejects whatever the list
GetEmailsRanged(s, outcome) ==
    /\ reqs[s].pc = "lRange"
    /\ clients[reqs[s].client] # "connecting"
    /\ LET message == IF clients[reqs[s].client] = "ready" THEN outcome ELSE "closed"
           caught == reqs[s].trace \o <<"read:" \o message>>
       IN  IF message = "ok"
           THEN Return(s, reqs[s],
                       [Response(200, "") EXCEPT
                           !.list = reversedEmails(SubSeq(emails, 1,
                                                          Min(Len(emails), ListLimit)))],
                       reqs[s].trace)
           ELSE IF listDoesNotExist(message)
           THEN Return(s, reqs[s],
                       [Response(200, "") EXCEPT !.list = reversedEmails(<<>>)], caught)
           ELSE Return(s, reqs[s], Response(500, "Failed to fetch emails."), caught)
    /\ UNCHANGED <<now, rateVars, env, socket, emails, redisClient>>
    /\ Swept(clients)

(***************************************************************************)
(* POST /api/send-email (src/unnamed/part_000)                             *)
(***************************************************************************)
\* the letters the patterns of isEmptyHTML are made of, for the i flag
Lower(c) ==
    CASE c = "P" -> "p" [] c = "B" -> "b" [] c = "R" -> "r"
      [] c = "N" -> "n" [] c = "S" -> "s" [] OTHER -> c

LowerAll(q) == [i \in 1..Len(q) |-> Lower(q[i])]

AllSpace(q) == \A i \in 1..Len(q) : IsSpace(q[i])

\* <br\s*\/?>
IsBr(q) ==
    /\ Len(q) >= 4
    /\ SubSeq(q, 1, 3) = <<"<", "b", "r">>
    /\ q[Len(q)] = ">"
    /\ LET mid == SubSeq(q, 4, Len(q) - 1) IN
       \/ AllSpace(mid)
       \/ mid # <<>> /\ mid[Len(mid)] = "/" /\ AllSpace(SubSeq(mid, 1, Len(mid) - 1))

Nbsp == <<"&", "n", "b", "s", "p", ";">>

\* part_000:8-31
isEmptyHTML(html) ==
    IF ~Truthy(html) \/ html.kind # "string" THEN TRUE
    ELSE LET trimmed == LowerAll(Trim(html.val)) IN
         IF trimmed = <<>> THEN TRUE
         ELSE /\ Len(trimmed) >= 7
              /\ SubSeq(trimmed, 1, 3) = <<"<", "p", ">">>
              /\ SubSeq(trimmed, Len(trimmed) - 3, Len(trimmed)) = <<"<", "/", "p", ">">>
              /\ LET inner == SubSeq(trimmed, 4, Len(trimmed) - 4) IN
                 \/ AllSpace(inner)
                 \/ IsBr(inner)
                 \/ IsBr(Trim(inner))
                 \/ inner = Nbsp
                 \/ Trim(inner) = Nbsp

\* [^\s@]+
Plain(q) == q # <<>> /\ \A i \in 1..Len(q) : ~IsSpace(q[i]) /\ q[i] # "@"

\* an address check that asks for no dot after the "@"
isValidEmailNoDot(email) ==
    IF ~Truthy(email) \/ email.kind # "string" THEN FALSE
    ELSE LET e == Trim(email.val) IN
         \E i \in 1..Len(e) :
            /\ e[i] = "@"
            /\ Plain(SubSeq(e, 1, i - 1))
            /\ Plain(SubSeq(e, i + 1, Len(e)))

\* part_000:34-40: /^[^\s@]+@[^\s@]+\.[^\s@]+$/ on the trimmed address
isValidEmail(email) ==
    IF ~Truthy(email) \/ email.kind # "string" THEN FALSE
    ELSE LET e == Trim(email.val) IN
         \E i \in 1..Len(e), j \in 1..Len(e) :
            /\ i < j
            /\ e[i] = "@"
            /\ e[j] = "."
            /\ Plain(SubSeq(e, 1, i - 1))
            /\ Plain(SubSeq(e, i + 1, j - 1))
            /\ Plain(SubSeq(e, j + 1, Len(e)))

SubjectLimit == 200   \* substring(0, 200)

\* part_000:42-79: the answer of the checks made before the provider is
\* called, or status 0 when the message goes out
sendEmailChecks(req, e) ==
    IF req.method # "POST" THEN Response(405, "Method Not Allowed")
    ELSE IF e.RESEND_API_KEY = "" THEN Response(500, "Email service is not configured.")
    ELSE IF ~req.hasBody THEN Response(500, "Internal Server Error.")
    ELSE IF ~Truthy(req.to) \/ req.to.kind # "string"
    THEN Response(400, "Recipient email address is required.")
    ELSE IF ~isValidEmail(req.to) THEN Response(400, "Invalid email address format.")
    ELSE IF ~Truthy(req.subject) \/ req.subject.kind # "string"
            \/ Trim(req.subject.val) = <<>>
    THEN Response(400, "Email subject is required.")
    ELSE IF isEmptyHTML(req.html) THEN Response(400, "Email body cannot be empty.")
    ELSE Response(0, "")

\* part_000:81-86
Message(req) ==
    [to |-> <<Trim(req.to.val)>>,
     subject |-> SubSeq(Trim(req.subject.val), 1,
                        Min(Len(Trim(req.subject.val)), SubjectLimit)),
     html |-> req.html.val]

\* part_000:42-86, behind withRateLimit (part_000:101): from the request to
\* the call of resend.emails.send
SendEmail(req) ==
    LET gate == withRateLimit(req)
        s == NextSlot
        held == Waiting("handler", req, gate.headers, <<"rate:admit", "handler">>)
        checks == sendEmailChecks(req, env)
    IN  /\ Room
        /\ rateLimitStore' = gate.store
        /\ IF ~gate.allowed
           THEN Return(s, held, TooManyRequests, <<"rate:reject">>)
           ELSE IF checks.status # 0
           THEN Return(s, held, checks, held.trace)
           ELSE /\ reqs' = Put(s, [held EXCEPT !.pc = "send", !.item = Message(req),
                                            !.trace = held.trace \o <<"send">>])
                /\ last' = NoLast
        /\ UNCHANGED <<now, routeOptions, windowLog, lastCheck,
                       env, socket, emails, clients, redisClient>>

\* part_000:88-97: the provider answers with data, with an error, or the
\* call throws
SendEmailSent(s, outcome) ==
    /\ reqs[s].pc = "send"
    /\ Return(s, reqs[s],
              IF outcome = "data" THEN Response(200, "Email sent successfully!")
              ELSE IF outcome = "error" THEN Response(400, "Failed to send email.")
              ELSE Response(500, "Internal Server Error."),
              reqs[s].trace)
    /\ UNCHANGED <<now, rateVars, env, socket, emails, clients, redisClient>>

(***************************************************************************)
(* The Redis connection                                                    *)
(***************************************************************************)
\* one redisClient for the two handlers
ModuleShared(route) == "get-emails"

\* the module whose redisClient a handler uses (get-emails.js:8, inbound-email.js:8)
ModuleOf(route) == IF route = "get-emails" THEN "get-emails" ELSE "inbound-email"

\* a failure of connect() that leaves the module's redisClient as it is
ConnectedKeepingClient(s, ok) ==
    /\ reqs[s].pc = "connect"
    /\ LET r == reqs[s]
           m == ModuleOf(r.route)
       IN  IF ok
           THEN /\ UNCHANGED redisClient
                /\ IF r.route = "get-emails"
                   THEN GetEmailsRange(s, r, redisClient[m])
                   ELSE InboundPush(s, r, redisClient[m])
                /\ Swept([clients EXCEPT ![r.made] = "ready"])
           ELSE /\ UNCHANGED redisClient
                /\ Return(s, r, Response(500, IF r.route = "get-emails"
                                              THEN "Failed to fetch emails."
                                              ELSE "Error processing webhook."), r.trace)
                /\ Swept([clients EXCEPT ![r.made] = "closed"])
    /\ UNCHANGED <<now, rateVars, env, socket, emails>>

\* get-emails.js:59-72, inbound-email.js:59-72: connect() settles for the
\* client this call made.  On success the function returns what the module's
\* redisClient holds by now; on failure it sets it to null and throws.
Connected(s, ok) ==
    /\ reqs[s].pc = "connect"
    /\ LET r == reqs[s]
           m == ModuleOf(r.route)
       IN  IF ok
           THEN /\ UNCHANGED redisClient
                /\ IF r.route = "get-emails"
                   THEN GetEmailsRange(s, r, redisClient[m])
                   ELSE InboundPush(s, r, redisClient[m])
                /\ Swept([clients EXCEPT ![r.made] = "ready"])
           ELSE /\ redisClient' = [redisClient EXCEPT ![m] = 0]
                /\ Return(s, r, Response(500, IF r.route = "get-emails"
                                              THEN "Failed to fetch emails."
                                              ELSE "Error processing webhook."), r.trace)
                /\ Swept([clients EXCEPT ![r.made] = "closed"])
    /\ UNCHANGED <<now, rateVars, env, socket, emails>>

\* the connection of a ready client is lost and the reconnect strategy gives up
ConnectionLost(c) ==
    /\ clients[c] = "ready"
    /\ last' = NoLast
    /\ UNCHANGED <<now, rateVars, env, socket, emails, redisClient, reqs>>
    /\ Swept([clients EXCEPT ![c] = "closed"])

(***************************************************************************)
(* The reconnect strategy (get-emails.js:32-38, inbound-email.js:32-38)    *)
(* and the loop of the client's socket that calls it.  The loop is the     *)
(* library's: it tries to connect, and when a try fails it calls the       *)
(* strategy with the number of retries made so far, counted from 0; on a   *)
(* number it waits that many milliseconds and tries again, on an Error it  *)
(* gives up and connect() rejects.  The count starts again once connected. *)
(***************************************************************************)
RetryLimit == 3       \* retries > 3
DelayStep == 100      \* retries * 100
DelayCap == 3000      \* Math.min(..., 3000)

MaxLate == 1          \* milliseconds a timer fires late, a try takes
MaxLosses == 1        \* times the connection is lost once made

\* get-emails.js:32-38
reconnectStrategy(retries) ==
    IF retries > RetryLimit
    THEN [error |-> TRUE, delay |-> 0]
    ELSE [error |-> FALSE, delay |-> Min(retries * DelayStep, DelayCap)]

\* connect() is called: the first try starts
SocketConnect ==
    /\ socket = NoSocket
    /\ socket' = [phase |-> "connecting", retries |-> 0, failures |-> 0, scheduled |-> 0,
                  delay |-> 0, asked |-> 0, wakeAt |-> 0, losses |-> 0]
    /\ UNCHANGED <<now, rateVars, env, emails, clients, redisClient, reqs, last>>

\* a try fails after took milliseconds and the strategy is asked
SocketTryFails(took) ==
    /\ socket.phase = "connecting"
    /\ LET answer == reconnectStrategy(socket.retries)
           t == now + took
       IN  /\ now' = t
           /\ socket' = IF answer.error
                        THEN [socket EXCEPT !.phase = "failed",
                                            !.failures = @ + 1,
                                            !.asked = socket.retries]
                        ELSE [socket EXCEPT !.phase = "waiting",
                                            !.failures = @ + 1,
                                            !.scheduled = @ + 1,
                                            !.asked = socket.retries,
                                            !.retries = @ + 1,
                                            !.delay = answer.delay,
                                            !.wakeAt = t + answer.delay]
    /\ UNCHANGED <<rateVars, env, emails, clients, redisClient, reqs, last>>

\* the delay is over, late milliseconds past its end: the next try starts
SocketRetry(late) ==
    /\ socket.phase = "waiting"
    /\ now' = socket.wakeAt + late
    /\ socket' = [socket EXCEPT !.phase = "connecting"]
    /\ UNCHANGED <<rateVars, env, emails, clients, redisClient, reqs, last>>

\* a try succeeds
SocketReady(took) ==
    /\ socket.phase = "connecting"
    /\ now' = now + took
    /\ socket' = [socket EXCEPT !.phase = "ready"]
    /\ UNCHANGED <<rateVars, env, emails, clients, redisClient, reqs, last>>

\* the connection is lost: the loop starts again, its count at 0
SocketLost ==
    /\ socket.phase = "ready"
    /\ socket.losses < MaxLosses
    /\ socket' = [socket EXCEPT !.phase = "connecting", !.retries = 0, !.failures = 0,
                                !.scheduled = 0, !.losses = @ + 1]
    /\ UNCHANGED <<now, rateVars, env, emails, clients, redisClient, reqs, last>>

(***************************************************************************)
(* The requests the model sends.                                           *)
(***************************************************************************)
AdminPassword == <<97, 98>>   \* "ab"

Configured ==
    [ADMIN_PASSWORD |-> AdminPassword, JWT_SECRET |-> "k", RESEND_WEBHOOK_SECRET |-> "w",
     RESEND_API_KEY |-> "re", REDIS_URL |-> "redis://"]

\* every variable of the environment set or not
Envs ==
    { [ADMIN_PASSWORD |-> IF "a" \in unset THEN <<>> ELSE Configured.ADMIN_PASSWORD,
       JWT_SECRET |-> IF "j" \in unset THEN "" ELSE Configured.JWT_SECRET,
       RESEND_WEBHOOK_SECRET |-> IF "w" \in unset THEN ""
                                 ELSE Configured.RESEND_WEBHOOK_SECRET,
       RESEND_API_KEY |-> IF "r" \in unset THEN "" ELSE Configured.RESEND_API_KEY,
       REDIS_URL |-> IF "u" \in unset THEN "" ELSE Configured.REDIS_URL] :
      unset \in SUBSET {"a", "j", "w", "r", "u"} }

\* Every request comes from one caller, known by its forwarded address.
\* "ab", "ac", "a", "aé" (two units, three bytes), "", arrays of numbers,
\* numbers and no password at all
Passwords ==
    { Str(<<97, 98>>), Str(<<97, 99>>), Str(<<97>>), Str(<<97, 233>>), Str(<<>>),
      Arr(<<97, 98>>), Arr(<<353, 98>>), Arr(<<97, 99>>), Arr(<<>>),
      Num(5), Num(0), Undefined }

LoginReq(method, hasBody, password) ==
    [route |-> "login", url |-> LoginUrl, method |-> method,
     xForwardedFor |-> <<"a">>, xRealIp |-> <<>>, remoteAddress |-> <<>>,
     hasBody |-> hasBody, password |-> password]

LoginReqs ==
    { LoginReq("POST", TRUE, p) : p \in Passwords }
    \cup { LoginReq("GET", TRUE, Str(AdminPassword)),
           LoginReq("POST", FALSE, Undefined) }

NoAuthorization == [present |-> FALSE, bearer |-> FALSE, token |-> NoToken]

Bearer(token) == [present |-> TRUE, bearer |-> TRUE, token |-> token]

\* no header, another scheme, and bearer tokens: not a token, signed with
\* another key, expired at this instant, and issued at this instant
Authorizations(t) ==
    { NoAuthorization,
      [present |-> TRUE, bearer |-> FALSE, token |-> NoToken],
      Bearer([kind |-> "garbage"]),
      Bearer(jwtSign("x", t)),
      Bearer([jwtSign(Configured.JWT_SECRET, t) EXCEPT !.exp = t \div 1000]),
      Bearer(jwtSign(Configured.JWT_SECRET, t)) }

GetEmailsReq(method, authorization) ==
    [route |-> "get-emails", url |-> GetEmailsUrl, method |-> method,
     xForwardedFor |-> <<"a">>, xRealIp |-> <<>>, remoteAddress |-> <<>>,
     authorization |-> authorization]

GetEmailsReqs(t) ==
    { GetEmailsReq("GET", a) : a \in Authorizations(t) }
    \cup { GetEmailsReq("POST", Bearer(jwtSign(Configured.JWT_SECRET, t))) }

Text(q) == Str(q)

GoodTo == Text(<<"a", "@", "b", ".", "c">>)

GoodSubject == Text(<<"h", "i">>)

GoodHtml == Text(<<"<", "p", ">", "h", "i", "<", "/", "p", ">">>)

SendEmailReq(method, hasBody, to, subject, html) ==
    [route |-> "send-email", url |-> SendEmailUrl, method |-> method,
     xForwardedFor |-> <<"a">>, xRealIp |-> <<>>, remoteAddress |-> <<>>,
     hasBody |-> hasBody, to |-> to, subject |-> subject, html |-> html]

\* recipients: "a@b.c", " a@b.c " and "x.y@b.c.d" pass; the others are not
\* an address, not a string, or missing
Tos ==
    { GoodTo,
      Text(<<" ", "a", "@", "b", ".", "c", "\n">>),
      Text(<<"x", ".", "y", "@", "b", ".", "c", ".", "d">>),
      Text(<<"n", "o", "t">>),
      Text(<<"a", "@", "b">>),
      Text(<<"a", "@", "b", ".">>),
      Text(<<"a", "@", ".", "c">>),
      Text(<<"@", "b", ".", "c">>),
      Text(<<"a", ".", "b", "@", "c">>),
      Text(<<"a", "@", "@", "b", ".", "c">>),
      Text(<<"a", "@", "b", ".", "c", "@", "d">>),
      Text(<<"a", " ", "@", "b", ".", "c">>),
      Text(<<" ">>),
      Text(<<>>),
      Arr(<<97>>),
      Num(5),
      Undefined }

LongSubjectLen == SubjectLimit + 1

\* subjects: "hi", " hi " and one of 201 characters pass
Subjects ==
    { GoodSubject,
      Text(<<" ", "h", "i", " ">>),
      Text([i \in 1..LongSubjectLen |-> IF i = 1 THEN " " ELSE "x"]),
      Text(<<" ">>),
      Text(<<" ", "\t", "\n">>),
      Text(<<>>),
      Arr(<<104>>),
      Num(5),
      Undefined }

\* bodies: "<p>hi</p>", "<p><br>x</p>", "<p>< br></p>", "<p><br / ></p>",
\* "<p>&nbsp;&nbsp;</p>" and "<div></div>" pass; the others are empty or
\* one of the patterns taken for empty
Htmls ==
    { GoodHtml,
      Text(<<"<", "p", ">", "<", "b", "r", ">", "x", "<", "/", "p", ">">>),
      Text(<<"<", "p", ">", "<", " ", "b", "r", ">", "<", "/", "p", ">">>),
      Text(<<"<", "p", ">", "<", "b", "r", " ", "/", " ", ">", "<", "/", "p", ">">>),
      Text(<<"<", "p", ">", "&", "n", "b", "s", "p", ";", "&", "n", "b", "s", "p", ";",
             "<", "/", "p", ">">>),
      Text(<<"<", "d", "i", "v", ">", "<", "/", "d", "i", "v", ">">>),
      Text(<<"<", "p", ">", "<", "/", "p", ">">>),
      Text(<<" ", "<", "P", ">", " ", "\n", "<", "/", "p", ">", " ">>),
      Text(<<"<", "p", ">", "<", "b", "r", ">", "<", "/", "p", ">">>),
      Text(<<"<", "p", ">", "<", "B", "R", " ", "/", ">", "<", "/", "P", ">">>),
      Text(<<"<", "p", ">", " ", "<", "b", "r", "/", ">", "\t", "<", "/", "p", ">">>),
      Text(<<"<", "p", ">", "&", "n", "b", "s", "p", ";", "<", "/", "p", ">">>),
      Text(<<"<", "p", ">", " ", "&", "N", "B", "S", "P", ";", " ", "<", "/", "p", ">">>),
      Text(<<" ", "\n">>),
      Text(<<>>),
      Arr(<<60>>),
      Num(5),
      Undefined }

\* none of these carries an Authorization header: the handler reads none.
\* One field varies at a time, and then the fields that fail together.
SendEmailReqs ==
    { SendEmailReq("POST", TRUE, to, GoodSubject, GoodHtml) : to \in Tos }
    \cup { SendEmailReq("POST", TRUE, GoodTo, subject, GoodHtml) : subject \in Subjects }
    \cup { SendEmailReq("POST", TRUE, GoodTo, GoodSubject, html) : html \in Htmls }
    \cup { SendEmailReq("POST", TRUE, Text(<<"n", "o", "t">>), Text(<<" ">>),
                        Text(<<"<", "p", ">", "<", "/", "p", ">">>)),
           SendEmailReq("POST", TRUE, Undefined, Undefined, Undefined),
           SendEmailReq("POST", TRUE, GoodTo, Text(<<" ">>),
                        Text(<<"<", "p", ">", "<", "/", "p", ">">>)),
           SendEmailReq("POST", FALSE, Undefined, Undefined, Undefined),
           SendEmailReq("GET", TRUE, GoodTo, GoodSubject, GoodHtml) }

EmailData(id) ==
    [present |-> TRUE, email_id |-> id, from |-> "f@x", to |-> "t@x",
     subject |-> "s", created_at |-> "c"]

BareData ==
    [present |-> TRUE, email_id |-> "", from |-> "", to |-> "", subject |-> "",
     created_at |-> ""]

NoData ==
    [present |-> FALSE, email_id |-> "", from |-> "", to |-> "", subject |-> "",
     created_at |-> ""]

Event(type, data, compact) == [type |-> type, data |-> data, compact |-> compact]

Events ==
    { Event("email.received", EmailData("e1"), TRUE),
      Event("email.received", BareData, TRUE),
      Event("email.received", NoData, TRUE),
      Event("email.sent", EmailData("e1"), TRUE) }

InboundReq(method, read, id, ts, signature, body) ==
    [route |-> "inbound-email", method |-> method, read |-> read,
     svixId |-> id, svixTimestamp |-> ts, svixSignature |-> signature, body |-> body]

\* the envelope the provider makes for an event at second ts
Genuine(method, read, ts, event) ==
    InboundReq(method, read, "msg", ts,
               Sign(Configured.RESEND_WEBHOOK_SECRET, "msg", ts, event), event)

InboundReqs(t) ==
    LET ts == t \div 1000
        e1 == Event("email.received", EmailData("e1"), TRUE)
        e2 == Event("email.received", EmailData("e2"), TRUE)
        spaced == Event("email.received", EmailData("e1"), FALSE)
    IN  { Genuine("POST", "ok", ts, ev) : ev \in Events }
        \cup { \* the stream fails, and the body was not sent in the layout
               \* JSON.stringify gives it
               Genuine("POST", "fallback", ts, spaced),
               Genuine("POST", "fail", ts, e1),
               Genuine("GET", "ok", ts, e1),
               \* the body of another event under the signature of e1
               [Genuine("POST", "ok", ts, e1) EXCEPT !.body = e2],
               \* signed with a key that is not the shared secret
               InboundReq("POST", "ok", "msg", ts, Sign("x", "msg", ts, e1), e1),
               \* genuine, but older than the tolerance
               Genuine("POST", "ok", ts - (WebhookTolerance + 1), e1),
               \* no svix-signature header
               InboundReq("POST", "ok", "msg", ts, NoSignature, e1) }

(***************************************************************************)
(* The specifications of the API.  The clock stands still in them: what    *)
(* depends on time (tokens, envelopes) is built around the instant now.    *)
(***************************************************************************)
MaxBurst == 2      \* requests of one caller on one governed route

Calls(req) ==
    IF RateKey(req) \in DOMAIN rateLimitStore THEN rateLimitStore[RateKey(req)].count
    ELSE 0

\* the environments in which only the variables of names may be unset
EnvsUnsetting(names) ==
    { e \in Envs : \A v \in DOMAIN e : e[v] # Configured[v] => v \in names }

InitApi(envs) ==
    /\ now = 0
    /\ rateLimitStore = << >>
    /\ routeOptions = WrapperOptions
    /\ windowLog = << >>
    /\ lastCheck = NoCheck
    /\ env \in envs
    /\ InitProcess

(***************************************************************************)
(* SpecLogin: POST /api/login on its own, in every environment, until the  *)
(* rate limiter rejects.                                                   *)
(***************************************************************************)
InitLogin == InitApi(Envs)

NextLogin == \E req \in LoginReqs : Login(req)

SpecLogin == InitLogin /\ [][NextLogin]_vars

(***************************************************************************)
(* SpecWebhook: POST /api/inbound-email on its own, with and without the   *)
(* webhook secret and the Redis URL.                                       *)
(***************************************************************************)
InitWebhook == InitApi(EnvsUnsetting({"RESEND_WEBHOOK_SECRET", "REDIS_URL"}))

NextWebhook ==
    \/ \E req \in InboundReqs(now) : InboundArrive(req)
    \/ \E s \in Slots, ok \in BOOLEAN : Connected(s, ok)
    \/ \E s \in Slots, outcome \in {"ok", "error"} : InboundPushed(s, outcome)
    \/ \E c \in ClientIds : ConnectionLost(c)

SpecWebhook == InitWebhook /\ [][NextWebhook]_vars

(***************************************************************************)
(* SpecAuth: the two endpoints that use the signing secret, with and       *)
(* without it.                                                             *)
(***************************************************************************)
InitAuth == InitApi(EnvsUnsetting({"JWT_SECRET", "ADMIN_PASSWORD", "REDIS_URL"}))

NextAuth ==
    \/ \E req \in LoginReqs : Calls(req) < MaxBurst /\ Login(req)
    \/ \E req \in GetEmailsReqs(now) : Calls(req) < MaxBurst /\ GetEmails(req)
    \/ \E s \in Slots, ok \in BOOLEAN : Connected(s, ok)
    \/ \E s \in Slots, outcome \in ReadOutcomes : GetEmailsRanged(s, outcome)
    \/ \E c \in ClientIds : ConnectionLost(c)

SpecAuth == InitAuth /\ [][NextAuth]_vars

\* list-emails requests with no credential and with a valid token
SomeGetEmailsReqs(t) ==
    { GetEmailsReq("GET", a) :
        a \in {NoAuthorization, Bearer(jwtSign(Configured.JWT_SECRET, t))} }

(***************************************************************************)
(* SpecRead: GET /api/get-emails over a list the store already holds.  The *)
(* list belongs to the store, which other writers share: an element need   *)
(* not be one that lPush of this process wrote.                            *)
(***************************************************************************)
MaxStored == 3

\* the strings of the list: two records and one that JSON.parse rejects
Record(id) == Stringify(emailToStore(EmailData(id), 0))

Malformed == [kind |-> "text", value |-> emailToStore(EmailData("e1"), 0)]

Entries == {Record("e1"), Record("e2"), Malformed}

\* a list of one more element than lRange asks for: records "e1" but for its
\* head, its hundredth and its last element
LongList(head, hundredth, beyond) ==
    [i \in 1..(ListLimit + 1) |->
        IF i = 1 THEN head
        ELSE IF i = ListLimit THEN hundredth
        ELSE IF i = ListLimit + 1 THEN beyond
        ELSE Record("e1")]

StoredLists ==
    UNION { [1..n -> Entries] : n \in 0..MaxStored }
    \cup { LongList(h, p, b) : h \in Entries, p \in Entries, b \in Entries }

InitRead ==
    /\ now = 0
    /\ rateLimitStore = << >>
    /\ routeOptions = WrapperOptions
    /\ windowLog = << >>
    /\ lastCheck = NoCheck
    /\ env = Configured
    /\ emails \in StoredLists
    /\ socket = NoSocket
    /\ clients = [c \in ClientIds |-> "free"]
    /\ redisClient = [m \in Modules |-> 0]
    /\ reqs = <<>>
    /\ last = NoLast

NextRead ==
    \/ \E req \in SomeGetEmailsReqs(now) : Calls(req) < MaxBurst /\ GetEmails(req)
    \/ \E s \in Slots, ok \in BOOLEAN : Connected(s, ok)
    \/ \E s \in Slots, outcome \in ReadOutcomes : GetEmailsRanged(s, outcome)
    \/ \E c \in ClientIds : ConnectionLost(c)

SpecRead == InitRead /\ [][NextRead]_vars

(***************************************************************************)
(* SpecReconnect: one socket from connect() on, its tries failing or not.  *)
(***************************************************************************)
InitReconnect == InitApi({Configured})

NextReconnect ==
    \/ SocketConnect
    \/ \E took \in 0..MaxLate : SocketTryFails(took)
    \/ \E late \in 0..MaxLate : SocketRetry(late)
    \/ \E took \in 0..MaxLate : SocketReady(took)
    \/ SocketLost

SpecReconnect == InitReconnect /\ [][NextReconnect]_vars

(***************************************************************************)
(* SpecSend: POST /api/send-email on its own, with and without the API key *)
(* of the provider, until the rate limiter rejects.                        *)
(***************************************************************************)
\* no request is in flight
Quiet == reqs = <<>>

InitSend == InitApi(EnvsUnsetting({"RESEND_API_KEY"}))

NextSend ==
    \/ Quiet /\ \E req \in SendEmailReqs : SendEmail(req)
    \/ \E s \in Slots, outcome \in {"data", "error", "throw"} : SendEmailSent(s, outcome)

SpecSend == InitSend /\ [][NextSend]_vars

(***************************************************************************)
(* Spec: the four endpoints in one process, the requests served one after  *)
(* the other; SpecWebhook and SpecAuth have them overlap.                  *)
(***************************************************************************)
SomeLoginReqs ==
    { LoginReq("POST", TRUE, p) : p \in {Str(AdminPassword), Str(<<97, 99>>)} }

SomeSendEmailReqs ==
    { SendEmailReq("POST", TRUE, GoodTo, GoodSubject, GoodHtml),
      SendEmailReq("POST", TRUE, Text(<<"n", "o", "t">>), GoodSubject, GoodHtml) }

SomeInboundReqs(t) ==
    LET ts == t \div 1000
        e1 == Event("email.received", EmailData("e1"), TRUE)
        e2 == Event("email.received", EmailData("e2"), TRUE)
    IN  { Genuine("POST", "ok", ts, e1),
          Genuine("POST", "ok", ts, e2),
          InboundReq("POST", "ok", "msg", ts, Sign("x", "msg", ts, e1), e1) }

Init == InitApi(EnvsUnsetting({"REDIS_URL"}))

\* no request is in flight

Next ==
    \/ \E req \in SomeLoginReqs : Quiet /\ Calls(req) < MaxBurst /\ Login(req)
    \/ \E req \in SomeGetEmailsReqs(now) : Quiet /\ Calls(req) < MaxBurst /\ GetEmails(req)
    \/ \E req \in SomeSendEmailReqs : Quiet /\ Calls(req) < MaxBurst /\ SendEmail(req)
    \/ \E req \in SomeInboundReqs(now) : Quiet /\ InboundArrive(req)
    \/ \E s \in Slots, ok \in BOOLEAN : Connected(s, ok)
    \/ \E s \in Slots, outcome \in {"ok", "error"} : InboundPushed(s, outcome)
    \/ \E s \in Slots, outcome \in ReadOutcomes : GetEmailsRanged(s, outcome)
    \/ \E s \in Slots, outcome \in {"data", "error", "throw"} : SendEmailSent(s, outcome)
    \/ \E c \in ClientIds : ConnectionLost(c)

Spec == Init /\ [][Next]_vars

(***************************************************************************)
(* Properties of the rate limiter.                                         *)
(***************************************************************************)
Checked == lastCheck.at # -1

FreshRecord(c) == [count |-> 1, resetTime |-> c.at + c.windowMs]

\* C1, as amended: for a key that starts with no record and max = N >= 1, the
\* first N calls of a window are allowed and every later call of that window
\* is rejected, where the window lasts up to and including the instant
\* windowResetAt; the first call made more than windowMs after the window was
\* opened is allowed and leaves count = 1 and a fresh windowResetAt.
C1_WindowLimit ==
    Checked =>
        LET c == lastCheck
            over == c.openedBefore # NeverOpened /\ c.at > c.openedBefore + c.windowMs
            first == c.openedBefore = NeverOpened \/ over
        IN  /\ c.result.allowed <=> c.nth <= c.max
            /\ first => c.result.allowed /\ c.after = FreshRecord(c)
            /\ ~first /\ c.result.allowed => c.after.count = c.nth

\* C1 as stated: the window is over once windowMs has elapsed since it was
\* opened, and the call made then is allowed and resets the counter.
C1_ResetOnceWindowMsElapsed ==
    Checked =>
        LET c == lastCheck
            elapsed == c.openedBefore # NeverOpened /\ c.at - c.openedBefore >= c.windowMs
        IN  /\ elapsed => c.result.allowed /\ c.after = FreshRecord(c)
            /\ ~elapsed => (c.result.allowed <=> c.nth <= c.max)

\* a key whose window was used up is checked after the window, and starts anew
C1_Witness ==
    /\ Checked
    /\ lastCheck.max >= 2
    /\ lastCheck.hadRecord
    /\ lastCheck.before.count = lastCheck.max
    /\ lastCheck.at > lastCheck.before.resetTime
    /\ lastCheck.result.allowed
    /\ lastCheck.after = FreshRecord(lastCheck)

\* C2: a rejected check leaves the record of its key as it was: count and
\* resetTime are the ones the call found, also in the Map itself.
C2_RejectLeavesRecord ==
    Checked /\ ~lastCheck.result.allowed =>
        /\ lastCheck.hadRecord
        /\ lastCheck.before.count >= lastCheck.max
        /\ lastCheck.after = lastCheck.before
        /\ lastCheck.key \in DOMAIN rateLimitStore
        /\ rateLimitStore[lastCheck.key] = lastCheck.before

\* a call rejected at the very end of its window, the limit being at least 2
C2_Witness ==
    /\ Checked
    /\ ~lastCheck.result.allowed
    /\ lastCheck.max >= 2
    /\ lastCheck.at = lastCheck.before.resetTime

(***************************************************************************)
(* Properties of the API.                                                  *)
(***************************************************************************)
Answered == last.route # "none"

Has(trace, stage) == \E i \in DOMAIN trace : trace[i] = stage

InFlight == DOMAIN reqs

\* the requests of the state: the one just answered and the ones in flight
Seen ==
    (IF Answered THEN {[route |-> last.route, trace |-> last.trace]} ELSE {})
    \cup { [route |-> reqs[s].route, trace |-> reqs[s].trace] : s \in InFlight }

Governed == {"login", "get-emails", "send-email"}

\* the governor decided first, and nothing ran on a rejection
GovernorFirst(trace) ==
    /\ trace # <<>>
    /\ trace[1] \in {"rate:admit", "rate:reject"}
    /\ trace[1] = "rate:reject" => Len(trace) = 1

Effects == {"read", "write", "send"}

\* C4: a store read, a store write or a provider send happens for a request
\* only after that request passed the credential check or the webhook
\* authentication.
C4_EffectsOnlyAfterAuthentication ==
    \A r \in Seen : \A i \in DOMAIN r.trace :
        r.trace[i] \in Effects => \E j \in 1..(i - 1) : r.trace[j] = "verify:ok"

\* C5: a list-emails response that holds records holds them newest first:
\* the record appended last comes first, the others in the order of the list.
C5_NewestFirst ==
    Answered /\ last.route = "get-emails" /\ last.res.list # <<>> =>
        last.res.list = ParseAll(last.found.emails)

\* the envelope of req does not verify under secret at time t: the body is not
\* the one signed, the key is not the secret, or the timestamp is stale
Fails(req, secret, t) ==
    \/ req.svixId = ""
    \/ req.svixSignature = NoSignature
    \/ req.svixSignature.body # RawBody(req)
    \/ req.svixSignature.key # secret
    \/ req.svixSignature.id # req.svixId
    \/ req.svixSignature.ts # req.svixTimestamp
    \/ (t \div 1000) - req.svixTimestamp > 300
    \/ req.svixTimestamp - (t \div 1000) > 300

\* a webhook request that gets as far as the verification
Presented(req) ==
    req.method = "POST" /\ req.read # "fail" /\ env.RESEND_WEBHOOK_SECRET # ""

StoreUnchanged ==
    /\ emails = last.found.emails
    /\ clients = last.found.clients
    /\ redisClient = last.found.redisClient

\* C6: a webhook whose verification fails is answered 401, and the email list
\* and the cached connection are as the request found them.
C6_FailedVerificationStoresNothing ==
    /\ Answered /\ last.route = "inbound-email" /\ Presented(last.req)
           /\ Fails(last.req, env.RESEND_WEBHOOK_SECRET, now) =>
          /\ last.res.status = 401
          /\ StoreUnchanged
    /\ \A s \in InFlight :
          reqs[s].route = "inbound-email" =>
              ~Fails(reqs[s].req, env.RESEND_WEBHOOK_SECRET, now)

\* a body that was tampered with under an unchanged signature is refused while
\* the list holds a record and the connection is cached
C6_Witness ==
    /\ Answered
    /\ last.route = "inbound-email"
    /\ last.req.svixSignature.key = env.RESEND_WEBHOOK_SECRET
    /\ last.req.svixSignature.body # last.req.body
    /\ last.res.status = 401
    /\ emails # <<>>
    /\ redisClient["inbound-email"] # 0

\* C7: without the webhook secret every POST to the webhook is answered 500,
\* with the configuration error whenever the body could be read, before any
\* verification, and nothing is appended or about to be.
C7_NoSecretRefusesAll ==
    env.RESEND_WEBHOOK_SECRET = "" =>
        /\ emails = <<>>
        /\ InFlight = {}
        /\ Answered /\ last.route = "inbound-email" /\ last.req.method = "POST" =>
              /\ last.res.status = 500
              /\ last.req.read # "fail" =>
                    last.res.error = "Webhook verification not configured"
              /\ ~Has(last.trace, "verify:ok")
              /\ ~Has(last.trace, "verify:fail")
              /\ StoreUnchanged

\* a genuine envelope of a received email is refused for want of the secret
C7_Witness ==
    /\ env.RESEND_WEBHOOK_SECRET = ""
    /\ Answered
    /\ last.req.method = "POST"
    /\ last.req.body.type = "email.received"
    /\ last.req.body.data.present
    /\ last.req.svixSignature # NoSignature
    /\ last.req.svixSignature.body = last.req.body
    /\ last.res.status = 500
    /\ last.res.error = "Webhook verification not configured"

\* the entry a stored webhook leaves at the head of the list
Stored(req) == Stringify(emailToStore(RawBody(req).data, now))

\* C8: the list changes only by a verified "email.received" event putting its
\* record at the head; a verified event of another kind is answered 200 with
\* the list as it was and the connection untouched: no client is made, none
\* is waited for.
C8_OnlyEmailReceivedAppends ==
    /\ Answered /\ emails # last.found.emails =>
          /\ last.route = "inbound-email"
          /\ Presented(last.req)
          /\ ~Fails(last.req, env.RESEND_WEBHOOK_SECRET, now)
          /\ RawBody(last.req).type = "email.received"
          /\ emails = <<Stored(last.req)>> \o last.found.emails
    /\ Answered /\ last.route = "inbound-email" /\ Presented(last.req)
           /\ ~Fails(last.req, env.RESEND_WEBHOOK_SECRET, now)
           /\ RawBody(last.req).type # "email.received" =>
          /\ last.res.status = 200
          /\ last.trace = <<"handler", "verify:ok">>
          /\ StoreUnchanged
    /\ \A s \in InFlight :
          reqs[s].route = "inbound-email" =>
              RawBody(reqs[s].req).type = "email.received"

\* a verified event of another kind is acknowledged while no connection is
\* cached, and none is made
C8_Witness ==
    /\ Answered
    /\ last.route = "inbound-email"
    /\ last.req.body.type = "email.sent"
    /\ last.req.body.data.present
    /\ last.res.status = 200
    /\ env.REDIS_URL # ""
    /\ redisClient["inbound-email"] = 0
    /\ \A c \in ClientIds : clients[c] = "free"

\* the governor admitted the request just answered
Admitted == last.trace # <<>> /\ last.trace[1] = "rate:admit"

\* a login request that gets as far as the comparison of the passwords
Compared ==
    /\ Answered /\ last.route = "login" /\ Admitted
    /\ last.req.method = "POST" /\ last.req.hasBody
    /\ env.ADMIN_PASSWORD # <<>>

\* a list-emails request that gets as far as the token
Carried ==
    /\ Answered /\ last.route = "get-emails" /\ Admitted
    /\ last.req.method = "GET"

HasBearer == last.req.authorization.present /\ last.req.authorization.bearer

\* the candidate has the bytes of the configured password
ByteEqual(req, e) ==
    /\ req.password.kind \in {"string", "array"}
    /\ ToBuffer(req.password) = Utf8(e.ADMIN_PASSWORD)

\* C9, as amended: without the signing secret, a login with the right password
\* and a list-emails request with a Bearer header are answered 500; a login
\* with a wrong password and a list-emails request without a Bearer header are
\* answered 401, as they are with the secret; no token is issued and no list
\* is read.
C9_NoSecretRefusesWhereNeeded ==
    env.JWT_SECRET = "" =>
        /\ Compared /\ last.req.password = Str(env.ADMIN_PASSWORD) =>
              last.res.status = 500
        /\ Compared /\ ~ByteEqual(last.req, env) => last.res.status = 401
        /\ Carried /\ HasBearer => last.res.status = 500
        /\ Carried /\ ~HasBearer => last.res.status = 401
        /\ Answered => last.res.status # 200 /\ last.res.token = NoToken
        /\ InFlight = {}

\* C9 as stated: without the signing secret, login and list-emails answer
\* every request with a 500-class response, never with 401.
C9_NoSecretNever401 ==
    env.JWT_SECRET = "" /\ (Compared \/ Carried) => last.res.status >= 500

\* the right password, and no secret to sign the token with
C9_Witness ==
    /\ env.JWT_SECRET = ""
    /\ Compared
    /\ last.req.password = Str(env.ADMIN_PASSWORD)
    /\ last.res.status = 500
    /\ last.res.error = "Authentication system not configured."

Validated(r) ==
    /\ r.route = "send-email" /\ r.trace # <<>> /\ r.trace[1] = "rate:admit"
    /\ r.req.method = "POST" /\ r.req.hasBody
    /\ env.RESEND_API_KEY # ""

IsText(v) == v.kind = "string"

\* local@domain: once trimmed, no white space, one "@" that is not first,
\* and a "." further on that is neither next to the "@" nor last
ToOk(to) ==
    /\ IsText(to)
    /\ LET e == Trim(to.val)
           ats == { i \in 1..Len(e) : e[i] = "@" }
       IN  /\ \A i \in 1..Len(e) : ~IsSpace(e[i])
           /\ Cardinality(ats) = 1
           /\ \E i \in ats : i > 1 /\ \E j \in (i + 2)..(Len(e) - 1) : e[j] = "."

\* non-blank after trimming
SubjectOk(subject) ==
    IsText(subject) /\ \E i \in 1..Len(subject.val) : ~IsSpace(subject.val[i])

\* a line break: "<br", k white spaces, a "/" or none, ">"
LineBreak(q) ==
    \E k \in 0..Len(q), slash \in {0, 1} :
        /\ Len(q) = 3 + k + slash + 1
        /\ SubSeq(q, 1, 3) = <<"<", "b", "r">>
        /\ \A i \in 4..(3 + k) : IsSpace(q[i])
        /\ slash = 1 => q[4 + k] = "/"
        /\ q[Len(q)] = ">"

\* the body is a paragraph that holds nothing, a line break, or a
\* non-breaking space, whatever the case of its letters
VisuallyEmpty(html) ==
    LET t == LowerAll(Trim(html.val))
        n == Len(t)
    IN  /\ n >= 7
        /\ SubSeq(t, 1, 3) = <<"<", "p", ">">>
        /\ SubSeq(t, n - 3, n) = <<"<", "/", "p", ">">>
        /\ LET core == Trim(SubSeq(t, 4, n - 4)) IN
           core \in {<<>>, Nbsp} \/ LineBreak(core)

HtmlOk(html) ==
    /\ IsText(html)
    /\ \E i \in 1..Len(html.val) : ~IsSpace(html.val[i])
    /\ ~VisuallyEmpty(html)

\* the answer to a request whose field fails, with the provider left alone
Refused(r, errors) ==
    /\ r.res.status = 400 /\ r.res.error \in errors
    /\ ~Has(r.trace, "send")

\* C11: a request that reaches the validation goes to the provider if and
\* only if its recipient has the shape local@domain, its subject is not
\* blank once trimmed, and its body is neither empty nor visually empty; a
\* request that fails is answered 400 with the error of the first check that
\* fails, in the order to, subject, html, and the provider is not called.
C11_ForwardsIffValid ==
    /\ (Answered /\ Validated(last)) =>
         LET to == last.req.to
             subject == last.req.subject
             html == last.req.html
         IN  /\ ~ToOk(to) =>
                   Refused(last, {"Recipient email address is required.",
                                  "Invalid email address format."})
             /\ (ToOk(to) /\ ~SubjectOk(subject)) =>
                   Refused(last, {"Email subject is required."})
             /\ (ToOk(to) /\ SubjectOk(subject) /\ ~HtmlOk(html)) =>
                   Refused(last, {"Email body cannot be empty."})
             /\ (ToOk(to) /\ SubjectOk(subject) /\ HtmlOk(html)) =>
                   /\ Has(last.trace, "send")
                   /\ last.res.error \notin {"Recipient email address is required.",
                                             "Invalid email address format.",
                                             "Email subject is required.",
                                             "Email body cannot be empty."}
    /\ \A s \in InFlight :
         (reqs[s].route = "send-email" /\ reqs[s].pc = "send") =>
            /\ ToOk(reqs[s].req.to)
            /\ SubjectOk(reqs[s].req.subject)
            /\ HtmlOk(reqs[s].req.html)
            /\ Cardinality({ i \in DOMAIN reqs[s].trace : reqs[s].trace[i] = "send" }) = 1

\* a request whose three fields all fail is answered with the error of the
\* recipient
C11_Witness ==
    /\ Answered /\ Validated(last)
    /\ IsText(last.req.to) /\ ~ToOk(last.req.to)
    /\ ~SubjectOk(last.req.subject) /\ ~HtmlOk(last.req.html)
    /\ last.res.status = 400 /\ last.res.error = "Invalid email address format."

(***************************************************************************)
(* C12: the wrapper of the governed handlers                               *)
(***************************************************************************)
\* how many times the wrapped handler was entered for a request
Invocations(trace) == Cardinality({ i \in DOMAIN trace : trace[i] = "handler" })

\* the record the rate limiter holds for a request
RecordOf(req) == rateLimitStore[RateKey(req)]

\* X-RateLimit-Limit, X-RateLimit-Remaining and X-RateLimit-Reset of a request
ThreeHeaders(r) ==
    /\ r.headers.set
    /\ r.headers.limit = WrapperOptions[r.req.url].max
    /\ r.headers.remaining \in 0..(r.headers.limit - 1)
    /\ r.headers.reset > now

\* C12: every governed request carries the three X-RateLimit headers; a
\* rejected one is answered 429 with Retry-After and its handler is never
\* entered; an admitted one enters its handler exactly once and carries no
\* Retry-After.
C12_HeadersAndOneInvocation ==
    /\ (Answered /\ last.route \in Governed) =>
          /\ ThreeHeaders(last)
          /\ last.headers.reset = RecordOf(last.req).resetTime
          /\ last.trace[1] = "rate:reject" =>
                /\ last.res.status = 429
                /\ last.headers.remaining = 0
                /\ last.headers.retryAfter = CeilDiv(RecordOf(last.req).resetTime - now, 1000)
                /\ last.headers.retryAfter >= 0
                /\ Invocations(last.trace) = 0
                /\ last.trace = <<"rate:reject">>
          /\ last.trace[1] = "rate:admit" =>
                /\ last.res.status # 429
                /\ last.headers.remaining = last.headers.limit - RecordOf(last.req).count
                /\ last.headers.retryAfter = 0 - 1
                /\ Invocations(last.trace) = 1
                /\ last.trace[2] = "handler"
    /\ \A s \in InFlight :
          reqs[s].route \in Governed =>
             /\ ThreeHeaders(reqs[s])
             /\ reqs[s].headers.retryAfter = 0 - 1
             /\ reqs[s].trace[1] = "rate:admit"
             /\ Invocations(reqs[s].trace) = 1

\* a request past the limit of its window: 429, Retry-After, no handler
C12_Witness ==
    /\ Answered /\ last.route = "send-email"
    /\ last.res.status = 429
    /\ last.headers.set /\ last.headers.retryAfter > 0
    /\ RecordOf(last.req).count = EmailMax
    /\ Invocations(last.trace) = 0

(***************************************************************************)
(* C13: reading a list that is empty or does not exist                     *)
(***************************************************************************)
\* a list-emails request whose read of the store has settled
ReadSettled ==
    /\ Answered /\ last.route = "get-emails"
    /\ Has(last.trace, "read")

\* the read was rejected with this message
ReadFailedWith(message) == ReadSettled /\ Has(last.trace, "read:" \o message)

ReadFailed == \E message \in {"WRONGTYPE", "no such key", "error", "closed"} :
                  ReadFailedWith(message)

\* C13: a read of an empty list, and a read the store rejects with a
\* wrong-type or a no-such-key error, are answered 200 with an empty
\* sequence; a read that fails with any other error is answered 500.
C13_EmptyReadIsNotAnError ==
    /\ (ReadSettled /\ ~ReadFailed /\ last.found.emails = <<>>) =>
          last.res.status = 200 /\ last.res.list = <<>>
    /\ (ReadFailedWith("WRONGTYPE") \/ ReadFailedWith("no such key")) =>
          last.res.status = 200 /\ last.res.list = <<>>
    /\ (ReadFailedWith("error") \/ ReadFailedWith("closed")) =>
          last.res.status = 500 /\ last.res.list = <<>>

\* the store rejects the read with a wrong-type error and the answer is the
\* empty sequence
C13_Witness ==
    /\ ReadFailedWith("WRONGTYPE")
    /\ last.res.status = 200 /\ last.res.list = <<>>

(***************************************************************************)
(* C14: reading a list that holds malformed entries                        *)
(***************************************************************************)
\* the first 100 elements of the list the read found
FirstStored == SubSeq(last.found.emails, 1, Min(Len(last.found.emails), ListLimit))

\* the records of the elements that deserialize, in the order of the list
ValidOf(texts) ==
    LET valid == { i \in 1..Len(texts) : texts[i].kind = "json" }
        Nth(k) == CHOOSE i \in valid : Cardinality({ j \in valid : j <= i }) = k
    IN  [k \in 1..Cardinality(valid) |-> texts[Nth(k)].value]

\* C14: a read over a list with malformed entries among valid ones is
\* answered 200 with exactly the valid entries among the first 100 stored
\* elements, in their stored relative order.
C14_ValidEntriesInStoredOrder ==
    (ReadSettled /\ ~ReadFailed) =>
        /\ last.res.status = 200
        /\ last.res.list = ValidOf(FirstStored)

(***************************************************************************)
(* C15: getRedisClient with an open client at hand                         *)
(***************************************************************************)
\* the module holds a client that reports itself open
CachedOpen(m) == redisClient[m] # 0 /\ IsOpen(redisClient[m])

\* the handlers that use the store
UsesStore(route) == route \in Modules

\* this step suspends a new request of module m past getRedisClient
Acquired(m) ==
    /\ Len(reqs') = Len(reqs) + 1
    /\ reqs'[Len(reqs')].route = m

\* this step makes no client and calls connect on none
NoneMade ==
    \A c \in ClientIds :
        /\ clients[c] = "free" => clients'[c] = "free"
        /\ clients'[c] = "connecting" => clients[c] = "connecting"

\* C15: when the module holds a client that reports itself open,
\* getRedisClient returns that client, whatever REDIS_URL is; the call
\* makes no client, calls connect on none and leaves the module's
\* redisClient as it was.
C15_OpenClientReused ==
    /\ [](\A m \in Modules, e \in Envs :
             CachedOpen(m) =>
                getRedisClient(m, e) = [kind |-> "reuse", client |-> redisClient[m]])
    /\ [][\A m \in Modules :
             (CachedOpen(m) /\ Acquired(m)) =>
                 LET new == reqs'[Len(reqs')] IN
                 /\ new.pc \in {"lRange", "lPush"}
                 /\ new.client = redisClient[m]
                 /\ redisClient' = redisClient
                 /\ NoneMade]_vars

\* a request is suspended on the client its module holds while that client
\* is still connecting for the request that made it
C15_Witness ==
    \E s \in InFlight :
        /\ UsesStore(reqs[s].route)
        /\ reqs[s].pc \in {"lRange", "lPush"}
        /\ reqs[s].client = redisClient[reqs[s].route]
        /\ clients[reqs[s].client] = "connecting"

(***************************************************************************)
(* C16: connect() fails                                                    *)
(***************************************************************************)
\* in this step the connect() that the request of slot s awaits is rejected
ConnectFails(s) ==
    /\ s \in InFlight
    /\ reqs[s].pc = "connect"
    /\ clients[reqs[s].made] = "connecting"
    /\ clients'[reqs[s].made] \in {"closed", "free"}

\* C16: when connect() fails the error reaches the handler, which answers
\* 500 without a read or a write; the module's redisClient is null
\* afterwards, connect is not called again in the step, and the next call
\* of getRedisClient makes a new client rather than reusing the failed one.
C16_FailedConnectClearsCache ==
    /\ [][\A s \in Slots :
             ConnectFails(s) =>
                 LET m == ModuleOf(reqs[s].route) IN
                 /\ last'.route = reqs[s].route /\ last'.req = reqs[s].req
                 /\ last'.res.status = 500
                 /\ ~Has(last'.trace, "read") /\ ~Has(last'.trace, "write")
                 /\ redisClient'[m] = 0
                 /\ emails' = emails
                 /\ Len(reqs') = Len(reqs) - 1
                 /\ NoneMade]_vars
    /\ [](\A m \in Modules :
             (redisClient[m] = 0 /\ env.REDIS_URL # "") =>
                 /\ getRedisClient(m, env).kind = "create"
                 /\ clients[getRedisClient(m, env).client] = "free")

\* a request that passed its checks was answered 500 before any read or
\* write, with the store address set: its connect() failed, and the module
\* holds no client
C16_Witness ==
    /\ Answered /\ UsesStore(last.route)
    /\ Has(last.trace, "verify:ok")
    /\ ~Has(last.trace, "read") /\ ~Has(last.trace, "write")
    /\ last.res.status = 500
    /\ env.REDIS_URL # ""
    /\ redisClient[last.route] = 0

(***************************************************************************)
(* C17: the same event delivered again                                     *)
(***************************************************************************)
\* how many elements of the list are this string
Copies(list, text) == Cardinality({ i \in DOMAIN list : list[i] = text })

\* the webhook just answered wrote its record
Wrote ==
    /\ Answered /\ last.route = "inbound-email"
    /\ Has(last.trace, "write")
    /\ last.res.status = 200

\* C17: every verified "email.received" event whose write succeeds puts one
\* record at the head of the list, whether or not the list already holds a
\* record of that event: the list is one longer, the record's copies are
\* one more, and the elements it held follow in their order.
C17_EveryDeliveryAppends ==
    Wrote =>
       /\ Len(emails) = Len(last.found.emails) + 1
       /\ Head(emails) = Stored(last.req)
       /\ Tail(emails) = last.found.emails
       /\ Copies(emails, Stored(last.req)) = Copies(last.found.emails, Stored(last.req)) + 1

\* the event delivered a second time is stored a second time
C17_Witness ==
    /\ Wrote
    /\ Copies(last.found.emails, Stored(last.req)) = 1
    /\ Copies(emails, Stored(last.req)) = 2

(***************************************************************************)
(* C18: overlapping calls of getRedisClient                                *)
(***************************************************************************)
\* the request of slot s goes on with the client getRedisClient returned
GoesOn(s) ==
    /\ s \in DOMAIN reqs'
    /\ reqs'[s].pc \in {"lRange", "lPush"}
    /\ reqs'[s].client # 0
    /\ clients'[reqs'[s].client] \in {"connecting", "ready"}

\* in this step the connect() that the request of slot s awaits succeeds
ConnectSucceeds(s) ==
    /\ s \in InFlight
    /\ reqs[s].pc = "connect"
    /\ clients[reqs[s].made] = "connecting"
    /\ clients'[reqs[s].made] = "ready"

\* C18: however the calls of getRedisClient overlap, a call that returns
\* without an error returns a client, not null, that is open when it is
\* returned: a call that finds a client cached, and a call whose connect()
\* succeeds, another caller's connect() having failed meanwhile or not.
C18_ReturnedClientOpen ==
    [][/\ \A m \in Modules : Acquired(m) /\ reqs'[Len(reqs')].pc # "connect" =>
                                 GoesOn(Len(reqs'))
       /\ \A s \in Slots : ConnectSucceeds(s) =>
                                 /\ Len(reqs') = Len(reqs)
                                 /\ reqs'[s].req = reqs[s].req
                                 /\ GoesOn(s)
                                 /\ reqs'[s].client = reqs[s].made]_vars

\* two calls overlapped and the connect() of the one that made the client
\* failed: it was answered 500, the other is left with the client it was
\* given open, and the module holds none
C18_Witness ==
    /\ Answered /\ UsesStore(last.route)
    /\ last.res.status = 500
    /\ redisClient[last.route] = 0
    /\ \E s \in InFlight :
          /\ reqs[s].route = last.route
          /\ reqs[s].pc \in {"lRange", "lPush"}
          /\ clients[reqs[s].client] = "closed"

(***************************************************************************)
(* C19: how many connections the process holds                             *)
(***************************************************************************)
\* the clients that are connecting or connected
Live == { c \in ClientIds : clients[c] \in {"connecting", "ready"} }

C20_AbandonsAfterThreeFailures ==
    socket.phase # "none" =>
       /\ socket.phase = "waiting" =>
             /\ socket.delay = Min(socket.asked * 100, 3000)
             /\ socket.wakeAt - socket.delay <= now
       /\ socket.scheduled <= 3
       /\ socket.failures >= 3 => socket.phase = "failed"

(***************************************************************************)
(* C21: the range of count and of remaining                                *)
(***************************************************************************)
\* the options a key is checked under: those of the route of its requests
OptionsOf(key) ==
    routeOptions[(CHOOSE req \in RateReqs : RateKey(req) = key).url]

\* C21: every record of the Map has 1 <= count <= max of its key; a check
\* that allows returns remaining = max - count, between 0 and max - 1, and a
\* check that rejects returns remaining = 0.
C21_CountAndRemainingInRange ==
    /\ \A key \in DOMAIN rateLimitStore :
          /\ key \in RateKeys
          /\ rateLimitStore[key].count >= 1
          /\ rateLimitStore[key].count <= OptionsOf(key).max
    /\ Checked =>
          /\ lastCheck.max = OptionsOf(lastCheck.key).max
          /\ lastCheck.after = rateLimitStore[lastCheck.key]
          /\ lastCheck.result.allowed =>
                /\ lastCheck.result.remaining = lastCheck.max - lastCheck.after.count
                /\ lastCheck.result.remaining \in 0..(lastCheck.max - 1)
          /\ ~lastCheck.result.allowed =>
                /\ lastCheck.result.remaining = 0
                /\ lastCheck.after.count = lastCheck.max

\* a key with room for several calls has used them all and is rejected
C21_Witness ==
    /\ Checked
    /\ lastCheck.max >= 2
    /\ ~lastCheck.result.allowed
    /\ lastCheck.result.remaining = 0
    /\ rateLimitStore[lastCheck.key].count = lastCheck.max

(***************************************************************************)
(* C22: one key's check and the records of the other keys                  *)
(***************************************************************************)
\* the record of key is live at time t: its window has not ended
LiveRecord(store, key, t) == key \in DOMAIN store /\ ~(store[key].resetTime < t)

\* C22: a check for one key leaves every live record of another key as it
\* was, count and resetTime, and makes no record for another key; a record
\* of another key goes only when its window has ended.  A rejection comes
\* from the caller's own live record being at its limit.
C22_OtherKeysUntouched ==
    /\ [][rateLimitStore' # rateLimitStore =>
             /\ lastCheck'.at = now
             /\ \A key \in (DOMAIN rateLimitStore \cup DOMAIN rateLimitStore')
                            \ {lastCheck'.key} :
                   /\ key \in DOMAIN rateLimitStore
                   /\ IF LiveRecord(rateLimitStore, key, now)
                      THEN /\ key \in DOMAIN rateLimitStore'
                           /\ rateLimitStore'[key] = rateLimitStore[key]
                      ELSE key \notin DOMAIN rateLimitStore']_vars
    /\ []((Checked /\ ~lastCheck.result.allowed) =>
             /\ lastCheck.hadRecord
             /\ lastCheck.before.count >= lastCheck.max
             /\ ~(lastCheck.before.resetTime < lastCheck.at))

\* one key is at its limit, and a check for another key is allowed and
\* leaves the first record as it was
C22_Witness ==
    /\ Checked /\ lastCheck.result.allowed
    /\ \E key \in DOMAIN rateLimitStore :
          /\ key # lastCheck.key
          /\ rateLimitStore[key].count = OptionsOf(key).max
          /\ LiveRecord(rateLimitStore, key, now)

====
